---- MODULE Spec2Model ----
(***************************************************************************)
(* The Cloudflare-style `env` capability objects of WinterJS               *)
(* (src/request_handlers/cloudflare/env.rs): the classes Env and           *)
(* EnvAssets, and EnvAssets::fetch, which bridges a script Request to the  *)
(* static asset dispatcher through a promise.                              *)
(*                                                                         *)
(* The script engine is single threaded: every action below is one         *)
(* uninterrupted run of script-thread code (a native call made by script,  *)
(* or one poll of a fetch future from one suspension point to the next),   *)
(* except ServeStaticFile, which is the dispatcher finishing on the native *)
(* executor.                                                               *)
(***************************************************************************)
EXTENDS Naturals, Sequences, FiniteSets, TLC

(* ------------------------------ bounds -------------------------------- *)

\* Number of fetch calls script issues in a run with several requests.
MaxCalls == 2
\* Env objects the host makes in all
MaxEnvs == 2
\* Longest header list of a script request.
MaxHeaders == 2
\* Longest request body, in bytes.
MaxBody == 2

(* ------------------------- Option and Result -------------------------- *)

None == [some |-> FALSE]
Some(v) == [some |-> TRUE, val |-> v]
Ok(v) == [ok |-> TRUE, val |-> v]
Err(e) == [ok |-> FALSE, err |-> e]

\* ion::Error: a kind and a message.
IonError(kind, message) == [kind |-> kind, message |-> message]

\* ion_err!(msg, kind): return Err(Error::new(msg, kind)).
ion_err(message, kind) == Err(IonError(kind, message))

\* ion_mk_err!(msg, kind): Error::new(msg, kind).
ion_mk_err(message, kind) == IonError(kind, message)

\* Every error wrapped in the static-asset message.
FromErrorPrefixed(message) ==
    IonError("Normal", "Failed to fetch static asset due to " \o message)

\* `?` into Exception: an error of another crate keeps its Display text.
FromError(message) == IonError("Normal", message)

(* ------------------------------- URLs --------------------------------- *)

UrlA == "https://example.com/a.txt"
UrlB == "https://example.com/b.txt"
\* Accepted by http::Uri (origin form), not an absolute URL.
UrlRelative == "/a.txt"
\* Stands for a URL longer than http::Uri accepts (65534 bytes).
UrlTooLong == "https://example.com/<path of 70000 bytes>"
UrlStrings == {UrlA, UrlB, UrlRelative, UrlTooLong}

\* The components a parser finds in a URL string.
Components(s) ==
    CASE s = UrlA -> [scheme |-> "https", authority |-> "example.com", path |-> "/a.txt"]
      [] s = UrlB -> [scheme |-> "https", authority |-> "example.com", path |-> "/b.txt"]
      [] s = UrlRelative -> [scheme |-> "", authority |-> "", path |-> "/a.txt"]
      [] OTHER -> [scheme |-> "https", authority |-> "example.com", path |-> "/<long>"]

\* Uri::try_from(&str), as http::request::Builder::uri applies it.
UriFromStr(s) ==
    IF s = UrlTooLong THEN Err("uri too long") ELSE Ok(Components(s))

\* <Uri as Display>::to_string.
UriToString(u) ==
    IF u.scheme = "" THEN u.path ELSE u.scheme \o "://" \o u.authority \o u.path

\* url::Url::parse: an absolute URL or an error.
UrlParse(s) ==
    IF Components(s).scheme = ""
    THEN Err("relative URL without a base")
    ELSE Ok([href |-> s, origin |-> Components(s).scheme \o "://" \o Components(s).authority])

(* ------------------------------ headers ------------------------------- *)

HeaderNames == {"accept", "x-id"}
HeaderValues == {"1", "2"}
HeaderPairs == HeaderNames \X HeaderValues

LastIndexOf(h, n) ==
    LET idx == {i \in 1..Len(h) : h[i][1] = n}
    IN  IF idx = {} THEN 0 ELSE CHOOSE i \in idx : \A j \in idx : j <= i

\* http::HeaderMap::append, the map given by its iteration order: a value of a
\* name already present joins that name's values, a new name goes last.
HeaderMapAppend(h, n, v) ==
    LET k == LastIndexOf(h, n)
    IN  IF k = 0 THEN Append(h, <<n, v>>)
        ELSE SubSeq(h, 1, k) \o <<<<n, v>>>> \o SubSeq(h, k + 1, Len(h))

RECURSIVE HeaderMapFrom(_)
\* The header map script builds by appending the pairs of s one by one.
HeaderMapFrom(s) ==
    IF s = <<>> THEN <<>>
    ELSE LET init == HeaderMapFrom(SubSeq(s, 1, Len(s) - 1))
         IN  HeaderMapAppend(init, s[Len(s)][1], s[Len(s)][2])

SeqsUpTo(S, n) == UNION {[1..k -> S] : k \in 0..n}


(* ----------------------- script request objects ----------------------- *)

Methods == {"GET", "POST"}
Bytes == {104, 105}
\* A request body: absent, or the bytes its stream yields.
Bodies == {None} \cup {Some(b) : b \in SeqsUpTo(Bytes, MaxBody)}

\* runtime::globals::fetch::Request as script holds it.
NewRequest(method, url, headers, body) ==
    [method |-> method, url |-> url, headers |-> HeaderMapFrom(headers),
     body |-> body, body_used |-> FALSE]

\* Every request of the bounded input space.
AllRequests ==
    {NewRequest(m, u, h, b) :
        m \in Methods, u \in UrlStrings, h \in SeqsUpTo(HeaderPairs, MaxHeaders),
        b \in Bodies}

\* The requests used when script holds several request objects.
SampleRequests ==
    {NewRequest("GET", UrlA, <<>>, None),
     NewRequest("POST", UrlB, <<<<"x-id", "1">>>>, Some(<<104, 105>>)),
     NewRequest("POST", UrlTooLong, <<>>, Some(<<104>>)),
     NewRequest("GET", UrlRelative, <<<<"accept", "2">>>>, None)}

\* Request::take_body: the body, once; afterwards an error.
TakeBody(req) ==
    IF req.body_used THEN Err("Request body has already been used") ELSE Ok(req.body)

\* The request object after take_body.
AfterTakeBody(req) ==
    IF req.body_used THEN req ELSE [req EXCEPT !.body = None, !.body_used = TRUE]

DrainOutcomes == {"ok", "io error"}

\* FetchBody::into_bytes: None for an absent body, the bytes of the stream, or
\* the stream's failure.
IntoBytes(body, outcome) ==
    IF ~body.some THEN Ok(None)
    ELSE IF outcome = "ok" THEN Ok(Some(body.val))
    ELSE Err("failed to read request body: " \o outcome)

(* ------------------------ http::request::Builder ---------------------- *)

\* http::Request::builder(): the default parts.
BuilderNew == Ok([method |-> "GET", uri |-> [scheme |-> "", authority |-> "", path |-> "/"], headers |-> <<>>])

\* Builder::uri: a builder already in error stays so; a URI that does not
\* convert puts the builder in error.
BuilderUri(b, s) ==
    IF ~b.ok THEN b
    ELSE IF UriFromStr(s).ok THEN Ok([b.val EXCEPT !.uri = UriFromStr(s).val])
    ELSE Err(UriFromStr(s).err)

\* Builder::method.
BuilderMethod(b, m) ==
    IF ~b.ok THEN b ELSE Ok([b.val EXCEPT !.method = m])

\* Builder::header written with HeaderMap::insert: the values the name had are
\* replaced.
BuilderHeaderInsert(b, n, v) ==
    IF ~b.ok THEN b
    ELSE Ok([b.val EXCEPT !.headers =
                IF LastIndexOf(@, n) = 0 THEN Append(@, <<n, v>>)
                ELSE [i \in 1..Len(@) |-> IF i = LastIndexOf(@, n) THEN <<n, v>> ELSE @[i]]])

\* Builder::header: appends to the header map.
BuilderHeader(b, n, v) ==
    IF ~b.ok THEN b ELSE Ok([b.val EXCEPT !.headers = HeaderMapAppend(@, n, v)])

RECURSIVE CopyHeaders(_, _)
\* env.rs 75-77: for header in request.headers(&cx) { http_req.header(..) }
CopyHeaders(b, h) ==
    IF h = <<>> THEN b
    ELSE CopyHeaders(BuilderHeader(b, h[1][1], h[1][2]), Tail(h))

\* Builder::body: the request, or the first error the builder met.
\* A build that drops the error the builder kept and uses the default head.
BuilderBodyLenient(b, body) ==
    Ok([parts |-> IF b.ok THEN b.val ELSE BuilderNew.val, body |-> body])

BuilderBody(b, body) ==
    IF b.ok THEN Ok([parts |-> b.val, body |-> body]) ELSE Err(b.err)

\* env.rs 82-85: Some(bytes) => Body::from(bytes), None => Body::empty().
HyperBody(body_bytes) ==
    IF body_bytes.some THEN body_bytes.val ELSE <<>>

(* --------------------- dispatcher and response bridge ------------------ *)

Hello == <<104, 101, 108, 108, 111>>
\* A header value that is no visible ASCII.
OpaqueValue == "<0xFF>"

Responses ==
    {[status |-> 200, headers |-> <<<<"content-type", "text/plain">>>>, body |-> Hello],
     [status |-> 404, headers |-> <<>>, body |-> <<>>],
     [status |-> 200, headers |-> <<<<"x-raw", OpaqueValue>>>>, body |-> <<104>>]}

DispatchErrors == {"disk error", "not found"}

\* What serve_static_file may answer: a response or an error.
DispatchOutcomes == {Ok(r) : r \in Responses} \cup {Err(e) : e \in DispatchErrors}

\* FetchResponse::from_hyper_response(cx, response, url).
FromHyperResponse(response, url) ==
    IF \E i \in 1..Len(response.headers) : response.headers[i][2] = OpaqueValue
    THEN Err("header value is not representable")
    ELSE Ok([status |-> response.status, headers |-> response.headers,
             body |-> response.body, url |-> url])

\* FetchResponse::new_object: the script object wrapping the response.
NewResponseObject(response) == [class |-> "Response", private |-> response]

(* ------------------------------ promises ------------------------------ *)

Pending == [state |-> "pending"]
Resolved(v) == [state |-> "resolved", value |-> v]
Rejected(e) == [state |-> "rejected", error |-> e]

\* future_to_promise: the future's Ok resolves the promise, its Err rejects it.
Settle(result) ==
    IF result.ok THEN Resolved(result.val) ELSE Rejected(result.err)

Prefix == "Failed to fetch static asset due to "


(* ------------------------------- state -------------------------------- *)

VARIABLES
    objects,     \* the capability objects of the context, by object id
    thrown,      \* the exception the last native call threw into script, if any
    created,     \* the Request objects as script constructed them
    requests,    \* the Request objects as they are now, by object id
    callsLeft,   \* fetch calls script has yet to make
    calls,       \* one record per fetch call: the future and its promise
    dispatches,  \* the dispatcher's invocations: request handed over, answer
    got,         \* what the last read of ASSETS returned, if any
    asked,       \* the Env object that read was made on, if any
    returns,     \* what each call of fetch returned: Some(call) or None
    futures      \* whether the event loop of the context has a future queue

vars == <<objects, thrown, created, requests, callsLeft, calls, dispatches, got, asked, returns, futures>>

Reqs == {"r1", "r2"}

\* Env::new_obj (env.rs 20-34): an EnvAssets object, and an Env holding it.
EnvNewObj ==
    [assets |-> [class |-> "EnvAssets", by |-> "host"],
     env |-> [class |-> "Env", by |-> "host", assets |-> "assets"]]

\* The Env objects of the context.
Envs == {o \in DOMAIN objects : objects[o].class = "Env"}

\* Env::new_obj called as the n-th time, n > 1 (env.rs 20-34): a new EnvAssets
\* and a new Env that holds it.
NewObj(n) ==
    (("assets" \o ToString(n)) :> [class |-> "EnvAssets", by |-> "host"])
    @@ (("env" \o ToString(n)) :>
            [class |-> "Env", by |-> "host", assets |-> "assets" \o ToString(n)])

\* The requests of the runs with one fetch: every method, URL and body without
\* headers, every URL and header list on a GET without a body, and every
\* header list on one request that can be served and has a body of two bytes.
OneRequests ==
    {q \in AllRequests :
        \/ q.headers = <<>>
        \/ q.method = "GET" /\ q.body = None
        \/ q.method = "POST" /\ q.url = UrlB /\ q.body = Some(<<104, 105>>)}

\* One request drawn from the input space, fetched once.
InitOne ==
    /\ created \in [{"r1"} -> OneRequests]
    /\ callsLeft = 1

\* Several request objects, fetched MaxCalls times in all.
InitMany ==
    /\ created \in [Reqs -> SampleRequests]
    /\ created["r2"].url = UrlB
    /\ callsLeft = MaxCalls

Init ==
    /\ objects = EnvNewObj
    /\ thrown = None
    /\ calls = <<>>
    /\ dispatches = <<>>
    /\ got = None
    /\ asked = None
    /\ returns = <<>>
    /\ futures \in BOOLEAN
    /\ (InitOne \/ InitMany)
    /\ requests = created

(* ------------------------- capability classes ------------------------- *)

\* A constructor that lets script build the object.
Constructible == Ok([by |-> "script"])

\* Env::constructor (env.rs 39-42).
EnvConstructor == ion_err("Cannot construct this type", "Type")

\* EnvAssets::constructor (env.rs 58-61).
EnvAssetsConstructor == ion_err("Cannot construct this type", "Type")

\* Script evaluates `new Env()` or `new EnvAssets()`: the class glue calls the
\* constructor; Ok(value) becomes a new object, Err(e) is thrown.
Construct(class, result) ==
    /\ IF result.ok
       THEN /\ objects' = objects @@ (("script-" \o class) :> [class |-> class, by |-> "script"])
            /\ thrown' = None
       ELSE /\ objects' = objects
            /\ thrown' = Some([in |-> class, error |-> result.err])
    /\ UNCHANGED <<created, requests, callsLeft, calls, dispatches, got, asked, returns, futures>>

ConstructEnv == Construct("Env", EnvConstructor)

ConstructEnvAssets == Construct("EnvAssets", EnvAssetsConstructor)

\* A getter that hands out another object than the one the Env holds.
get_assets_fresh(env) == "assets-" \o env.by

\* Env::get_assets (env.rs 44-48): self.assets.get().
get_assets(env) == env.assets

\* Script reads ASSETS of one of the Env objects.
GetAssets ==
    \E e \in Envs :
        /\ got' = Some(get_assets(objects[e]))
        /\ asked' = Some(e)
        /\ UNCHANGED <<objects, thrown, created, requests, callsLeft, calls, dispatches,
                       returns, futures>>

\* The host calls Env::new_obj again: nothing in new_obj looks at the objects
\* made before.
NewObjAgain ==
    /\ Cardinality(Envs) < MaxEnvs
    /\ objects' = objects @@ NewObj(Cardinality(Envs) + 1)
    /\ UNCHANGED <<thrown, created, requests, callsLeft, calls, dispatches, got, asked, returns, futures>>

(* -------------------------- EnvAssets::fetch -------------------------- *)

Phase(name, ok) == [phase |-> name, ok |-> ok]

\* One use of script-engine state by a future: the object, how it was reached,
\* and where the future's Context was at that moment.
Touch(object, via, cx) == [object |-> object, via |-> via, cx |-> cx]

\* The closure handed to future_to_promise (env.rs 64-67): it owns the traced
\* handle of the request object and has not run.
NewCall(r) ==
    [request_heap |-> r, pc |-> "new", promise |-> None,
     http_req |-> None, request_body |-> None, url |-> None, trace |-> <<>>,
     cx |-> "none", touched |-> <<>>]

\* future_to_promise: with a future queue, a pending promise for the future,
\* which is given the Context and queued on the event loop without being
\* polled; without one, nothing: no promise, and the future is dropped.
FutureToPromise(future) ==
    IF futures
    THEN Some([future EXCEPT !.pc = "queued", !.promise = Some(Pending), !.cx = "held"])
    ELSE None

\* An await_native that leaves the Context with the suspended future.
AwaitNativeKeeping(cx) == cx

\* cx.await_native_cx(|cx| ..) (env.rs 80): the Context is passed to the
\* closure that drains the body.
AwaitNativeCx(cx) == IF cx = "held" THEN "lent" ELSE cx

\* cx.await_native(..) (env.rs 93-94): the Context is given up for the time of
\* the await.
AwaitNative(cx) == IF cx = "held" THEN "away" ELSE cx

\* let (cx, _) = .. .await (env.rs 80, 93-95): the await hands the Context back.
Regain(cx) == "held"

\* The future ends but its errors are dropped: only Ok settles the promise.
FinishDropping(call, result, phases) ==
    [call EXCEPT !.pc = "done",
                 !.promise = IF result.ok THEN Some(Settle(result)) ELSE @,
                 !.http_req = None, !.request_body = None, !.url = None,
                 !.trace = @ \o phases \o <<Phase("settle", TRUE)>>,
                 !.touched = @ \o <<Touch("promise", "future_to_promise", call.cx)>>]

\* The result settles the promise but the future does not end there.
FinishNoReturn(call, result, phases) ==
    [call EXCEPT !.promise = Some(Settle(result)),
                 !.trace = @ \o phases \o <<Phase("settle", TRUE)>>,
                 !.touched = @ \o <<Touch("promise", "future_to_promise", call.cx)>>]

\* The future ends with `result`: future_to_promise settles the promise, and
\* the locals of the future are dropped.
Finish(call, result, phases) ==
    [call EXCEPT !.pc = "done", !.promise = Some(Settle(result)),
                 !.http_req = None, !.request_body = None, !.url = None,
                 !.trace = @ \o phases \o <<Phase("settle", TRUE)>>,
                 !.touched = @ \o <<Touch("promise", "future_to_promise", call.cx)>>]

\* FetchRequest::get_mut_private on the re-rooted handle (env.rs 68-69).
GetMutPrivate(r) ==
    IF r \in DOMAIN requests THEN Some(requests[r]) ELSE None

\* env.rs 71-77: the builder with the request's URL, method and headers.
ExtractHead(req) ==
    CopyHeaders(BuilderMethod(BuilderUri(BuilderNew, req.url), req.method), req.headers)

\* A take_body whose failure is replaced by an empty body.
TakeBodyOrDefault(req) ==
    IF TakeBody(req).ok THEN TakeBody(req) ELSE Ok(None)

\* env.rs 79: request.take_body()?
RequestBody(req) == TakeBody(req)

\* First poll of the future (env.rs 68-80): the request is reached through the
\* traced handle, its head is copied into the builder, its body is taken, and
\* the future suspends in the body drain.
PollStart(c) ==
    /\ c \in 1..Len(calls)
    /\ calls[c].pc = "queued"
    /\ LET call == [calls[c] EXCEPT
                       !.touched = @ \o <<Touch("request", "handle", calls[c].cx)>>]
           r == call.request_heap
           private == GetMutPrivate(r)
           request == private.val
           http_req == ExtractHead(request)
           request_body == RequestBody(request)
           head == <<Phase("extract", http_req.ok), Phase("detach", TakeBody(request).ok)>>
       IN  IF ~private.some
           THEN /\ calls' = [calls EXCEPT ![c].pc = "panicked"]
                /\ UNCHANGED requests
           ELSE /\ requests' = [requests EXCEPT ![r] = AfterTakeBody(request)]
                /\ IF request_body.ok
                   THEN calls' = [calls EXCEPT ![c] =
                            [call EXCEPT !.pc = "drain", !.http_req = Some(http_req),
                                         !.request_body = Some(request_body.val),
                                         !.trace = @ \o head,
                                         !.cx = AwaitNativeCx(@)]]
                   ELSE calls' = [calls EXCEPT ![c] =
                            Finish(call, Err(FromError(request_body.err)), head)]
    /\ UNCHANGED <<objects, thrown, created, callsLeft, dispatches, got, asked, returns, futures>>

\* EnvAssets::fetch run to its first suspension before the promise is returned.
FetchEager(r) ==
    /\ callsLeft > 0
    /\ r \in DOMAIN requests
    /\ LET promise == FutureToPromise(NewCall(r))
           call == [promise.val EXCEPT
                       !.touched = <<Touch("request", "handle", "held")>>]
           request == requests[r]
           request_body == RequestBody(request)
           head == <<Phase("extract", ExtractHead(request).ok),
                     Phase("detach", TakeBody(request).ok)>>
       IN  IF ~promise.some
           THEN /\ returns' = Append(returns, None)
                /\ UNCHANGED <<requests, calls>>
           ELSE /\ returns' = Append(returns, Some(Len(calls) + 1))
                /\ requests' = [requests EXCEPT ![r] = AfterTakeBody(request)]
                /\ calls' = Append(calls,
                       IF request_body.ok
                       THEN [call EXCEPT !.pc = "drain",
                                         !.http_req = Some(ExtractHead(request)),
                                         !.request_body = Some(request_body.val),
                                         !.trace = @ \o head,
                                         !.cx = AwaitNativeCx(@)]
                       ELSE Finish(call, Err(FromError(request_body.err)), head))
    /\ callsLeft' = callsLeft - 1
    /\ UNCHANGED <<objects, thrown, created, dispatches, got, asked, futures>>

\* EnvAssets::fetch (env.rs 63-103): trace the request object, hand the future
\* to future_to_promise and return what it returns: the promise, or nothing.
Fetch(r) ==
    /\ callsLeft > 0
    /\ r \in DOMAIN requests
    /\ LET promise == FutureToPromise(NewCall(r))
       IN  IF promise.some
           THEN /\ calls' = Append(calls, promise.val)
                /\ returns' = Append(returns, Some(Len(calls) + 1))
           ELSE /\ calls' = calls
                /\ returns' = Append(returns, None)
    /\ callsLeft' = callsLeft - 1
    /\ UNCHANGED <<objects, thrown, created, requests, dispatches, got, asked, futures>>

\* The invocations of the dispatcher made by call c.
DispatchesOf(c) == {d \in 1..Len(dispatches) : dispatches[d].call = c}

\* The answer read from one slot shared by all calls: the latest invocation's.
AwaitedShared(c) == dispatches[Len(dispatches)].result

\* env.rs 93-95: the dispatcher's answer to the invocation call c awaits.
Awaited(c) == dispatches[CHOOSE d \in DispatchesOf(c) : TRUE].result

\* A URL that does not parse replaced by a default one.
ParseUrlOrDefault(request) ==
    IF UrlParse(UriToString(request.parts.uri)).ok
    THEN UrlParse(UriToString(request.parts.uri))
    ELSE Ok([href |-> "about:blank", origin |-> "null"])

\* env.rs 92: url::Url::parse(request.parts.uri.to_string().as_str())
ParseUrl(request) == UrlParse(UriToString(request.parts.uri))

\* A future that puts the body back into the request when it fails after the
\* body take.
PollDrainRestoring(c, outcome) ==
    /\ c \in 1..Len(calls)
    /\ calls[c].pc = "drain"
    /\ LET call == [calls[c] EXCEPT
                       !.touched = @ \o <<Touch("body", "owned", calls[c].cx)>>,
                       !.cx = Regain(@)]
           r == call.request_heap
           restored == [requests EXCEPT ![r] = created[r]]
           body_bytes == IntoBytes(call.request_body.val, outcome)
           http_req == BuilderBody(call.http_req.val, HyperBody(body_bytes.val))
           url == ParseUrl(http_req.val)
       IN  IF ~body_bytes.ok
           THEN /\ calls' = [calls EXCEPT ![c] =
                        Finish(call, Err(FromError(body_bytes.err)),
                               <<Phase("drain", FALSE)>>)]
                /\ requests' = restored
                /\ UNCHANGED dispatches
           ELSE IF ~http_req.ok
           THEN /\ calls' = [calls EXCEPT ![c] =
                        Finish(call, Err(FromError(http_req.err)),
                               <<Phase("drain", TRUE), Phase("build", FALSE)>>)]
                /\ requests' = restored
                /\ UNCHANGED dispatches
           ELSE IF ~url.ok
           THEN /\ calls' = [calls EXCEPT ![c] =
                        Finish(call, Err(FromError(url.err)),
                               <<Phase("drain", TRUE), Phase("build", TRUE),
                                 Phase("parse", FALSE)>>)]
                /\ requests' = restored
                /\ UNCHANGED dispatches
           ELSE /\ dispatches' = Append(dispatches,
                        [call |-> c, request |-> http_req.val, result |-> None])
                /\ calls' = [calls EXCEPT ![c] =
                        [call EXCEPT !.pc = "dispatch", !.http_req = None,
                                     !.request_body = None, !.url = Some(url.val),
                                     !.trace = @ \o <<Phase("drain", TRUE),
                                         Phase("build", TRUE), Phase("parse", TRUE)>>,
                                     !.cx = AwaitNative(@)]]
                /\ UNCHANGED requests
    /\ UNCHANGED <<objects, thrown, created, callsLeft, got, asked, returns, futures>>

\* A future that takes a failed drain for an empty body and goes on.
PollDrainUnchecked(c, outcome) ==
    /\ c \in 1..Len(calls)
    /\ calls[c].pc = "drain"
    /\ LET call == [calls[c] EXCEPT
                       !.touched = @ \o <<Touch("body", "owned", calls[c].cx)>>,
                       !.cx = Regain(@)]
           body_bytes == IntoBytes(call.request_body.val, outcome)
           bytes == IF body_bytes.ok THEN body_bytes.val ELSE None
           http_req == BuilderBody(call.http_req.val, HyperBody(bytes))
           url == ParseUrl(http_req.val)
       IN  IF ~http_req.ok
           THEN /\ calls' = [calls EXCEPT ![c] =
                        Finish(call, Err(FromError(http_req.err)),
                               <<Phase("drain", body_bytes.ok), Phase("build", FALSE)>>)]
                /\ UNCHANGED dispatches
           ELSE IF ~url.ok
           THEN /\ calls' = [calls EXCEPT ![c] =
                        Finish(call, Err(FromError(url.err)),
                               <<Phase("drain", body_bytes.ok), Phase("build", TRUE),
                                 Phase("parse", FALSE)>>)]
                /\ UNCHANGED dispatches
           ELSE /\ dispatches' = Append(dispatches,
                        [call |-> c, request |-> http_req.val, result |-> None])
                /\ calls' = [calls EXCEPT ![c] =
                        [call EXCEPT !.pc = "dispatch", !.http_req = None,
                                     !.request_body = None, !.url = Some(url.val),
                                     !.trace = @ \o <<Phase("drain", body_bytes.ok),
                                         Phase("build", TRUE), Phase("parse", TRUE)>>,
                                     !.cx = AwaitNative(@)]]
    /\ UNCHANGED <<objects, thrown, created, requests, callsLeft, got, asked, returns, futures>>

\* The drain completes and the future runs on to the dispatcher (env.rs 80-94):
\* body bytes, Builder::body, Url::parse, then the request is handed over.
PollDrain(c, outcome) ==
    /\ c \in 1..Len(calls)
    /\ calls[c].pc = "drain"
    /\ LET call == [calls[c] EXCEPT
                       !.touched = @ \o <<Touch("body", "owned", calls[c].cx)>>,
                       !.cx = Regain(@)]
           body_bytes == IntoBytes(call.request_body.val, outcome)
           http_req == BuilderBody(call.http_req.val, HyperBody(body_bytes.val))
           url == ParseUrl(http_req.val)
       IN  IF ~body_bytes.ok
           THEN /\ calls' = [calls EXCEPT ![c] =
                        Finish(call, Err(FromError(body_bytes.err)),
                               <<Phase("drain", FALSE)>>)]
                /\ UNCHANGED dispatches
           ELSE IF ~http_req.ok
           THEN /\ calls' = [calls EXCEPT ![c] =
                        Finish(call, Err(FromError(http_req.err)),
                               <<Phase("drain", TRUE), Phase("build", FALSE)>>)]
                /\ UNCHANGED dispatches
           ELSE IF ~url.ok
           THEN /\ calls' = [calls EXCEPT ![c] =
                        Finish(call, Err(FromError(url.err)),
                               <<Phase("drain", TRUE), Phase("build", TRUE),
                                 Phase("parse", FALSE)>>)]
                /\ UNCHANGED dispatches
           ELSE /\ dispatches' = Append(dispatches,
                        [call |-> c, request |-> http_req.val, result |-> None])
                /\ calls' = [calls EXCEPT ![c] =
                        [call EXCEPT !.pc = "dispatch", !.http_req = None,
                                     !.request_body = None, !.url = Some(url.val),
                                     !.trace = @ \o <<Phase("drain", TRUE),
                                         Phase("build", TRUE), Phase("parse", TRUE)>>,
                                     !.cx = AwaitNative(@)]]
    /\ UNCHANGED <<objects, thrown, created, requests, callsLeft, got, asked, returns, futures>>

\* CloudflareRequestHandler::serve_static_file answers invocation d.
ServeStaticFile(d, outcome) ==
    /\ d \in 1..Len(dispatches)
    /\ ~dispatches[d].result.some
    /\ dispatches' = [dispatches EXCEPT ![d].result = Some(outcome)]
    /\ UNCHANGED <<objects, thrown, created, requests, callsLeft, calls, got, asked, returns, futures>>

\* The dispatcher's error passed on as it is, without the prefix.
MapErrBare(response) ==
    IF response.ok THEN response ELSE Err(FromError(response.err))

\* The dispatcher's error replaced by an empty error response.
MapErrDefault(response) ==
    IF response.ok THEN response
    ELSE Ok([status |-> 500, headers |-> <<>>, body |-> <<>>])

\* env.rs 96-98: a dispatcher error becomes the prefixed error.
MapErr(response) ==
    IF response.ok THEN response
    ELSE Err(ion_mk_err(Prefix \o response.err, "Normal"))

\* A bridge failure that resolves the promise with an empty object.
ConvertUnchecked(response, url) ==
    LET converted == FromHyperResponse(response, url)
    IN  IF converted.ok THEN Ok(NewResponseObject(converted.val))
        ELSE Ok([class |-> "Object"])

\* The response tagged with a default URL, not the request's.
ConvertUntagged(response, url) ==
    LET converted == FromHyperResponse(response, [href |-> "about:blank", origin |-> "null"])
    IN  IF converted.ok THEN Ok(NewResponseObject(converted.val))
        ELSE Err(FromError(converted.err))

\* env.rs 99-100: the response bridge and the script object.
Convert(response, url) ==
    LET converted == FromHyperResponse(response, url)
    IN  IF converted.ok THEN Ok(NewResponseObject(converted.val))
        ELSE Err(FromError(converted.err))

\* A future that, when the dispatcher failed, gives the request its body back
\* through the reference it got before the suspensions.
PollServedRestoring(c) ==
    /\ c \in 1..Len(calls)
    /\ calls[c].pc = "dispatch"
    /\ Awaited(c).some
    /\ LET call == [calls[c] EXCEPT !.cx = Regain(@)]
           r == call.request_heap
           answer == Awaited(c).val
           response == MapErr(answer)
           restoring == [call EXCEPT
                          !.touched = @ \o <<Touch("request", "reference", call.cx)>>]
           bridged == [call EXCEPT
                          !.touched = @ \o <<Touch("response", "new", call.cx)>>]
       IN  /\ calls' = [calls EXCEPT ![c] =
                 IF ~response.ok
                 THEN Finish(restoring, response, <<Phase("dispatch", answer.ok)>>)
                 ELSE Finish(bridged, Convert(response.val, call.url.val),
                        <<Phase("dispatch", answer.ok),
                          Phase("convert", FromHyperResponse(response.val, call.url.val).ok)>>)]
           /\ requests' = IF ~response.ok
                          THEN [requests EXCEPT ![r] = created[r]]
                          ELSE requests
    /\ UNCHANGED <<objects, thrown, created, callsLeft, dispatches, got, asked, returns, futures>>

\* The dispatcher has answered and the future runs to its end (env.rs 95-100).
PollServed(c) ==
    /\ c \in 1..Len(calls)
    /\ calls[c].pc = "dispatch"
    /\ Awaited(c).some
    /\ LET call == [calls[c] EXCEPT !.cx = Regain(@)]
           answer == Awaited(c).val
           response == MapErr(answer)
           bridged == [call EXCEPT
                          !.touched = @ \o <<Touch("response", "new", call.cx)>>]
       IN  calls' = [calls EXCEPT ![c] =
               IF ~response.ok
               THEN Finish(call, response, <<Phase("dispatch", answer.ok)>>)
               ELSE Finish(bridged, Convert(response.val, call.url.val),
                      <<Phase("dispatch", answer.ok),
                        Phase("convert", FromHyperResponse(response.val, call.url.val).ok)>>)]
    /\ UNCHANGED <<objects, thrown, created, requests, callsLeft, dispatches, got, asked, returns, futures>>

Next ==
    \/ ConstructEnv
    \/ ConstructEnvAssets
    \/ GetAssets
    \/ NewObjAgain
    \/ \E r \in Reqs : Fetch(r)
    \/ \E c \in 1..MaxCalls : PollStart(c)
    \/ \E c \in 1..MaxCalls, outcome \in DrainOutcomes : PollDrain(c, outcome)
    \/ \E d \in 1..MaxCalls, outcome \in DispatchOutcomes : ServeStaticFile(d, outcome)
    \/ \E c \in 1..MaxCalls : PollServed(c)

Spec == Init /\ [][Next]_vars

\* The event loop polls every queued or woken future, and the body drain and
\* the dispatcher each end with a result or an error.
Fairness ==
    \A c \in 1..MaxCalls :
        /\ WF_vars(PollStart(c))
        /\ WF_vars(\E outcome \in DrainOutcomes : PollDrain(c, outcome))
        /\ WF_vars(\E outcome \in DispatchOutcomes : ServeStaticFile(c, outcome))
        /\ WF_vars(PollServed(c))

\* The fair runs start from two of the sample requests: the first one the
\* builder refuses, the second one every phase can serve.
InitFair ==
    /\ objects = EnvNewObj
    /\ thrown = None
    /\ calls = <<>>
    /\ dispatches = <<>>
    /\ got = None
    /\ asked = None
    /\ returns = <<>>
    /\ futures \in BOOLEAN
    /\ InitMany
    /\ created["r1"].url = UrlTooLong
    /\ requests = created

FairSpec == InitFair /\ [][Next]_vars /\ Fairness

(* ------------------------ vocabulary of the claims --------------------- *)

Calls == 1..Len(calls)

\* The request object call c was made with, as script constructed it.
RequestOf(c) == created[calls[c].request_heap]

\* The dispatcher's answer to call c's own invocation.
OwnAnswer(c) == dispatches[CHOOSE d \in DispatchesOf(c) : TRUE].result

Served(c) == DispatchesOf(c) # {} /\ OwnAnswer(c).some

IsRejected(c) == calls[c].promise.some /\ calls[c].promise.val.state = "rejected"

IsResolved(c) == calls[c].promise.some /\ calls[c].promise.val.state = "resolved"

\* Phase `name` is in the trace of call c with outcome ok.
Ran(c, name, ok) ==
    \E i \in 1..Len(calls[c].trace) : calls[c].trace[i] = Phase(name, ok)

Failed(c) == \E i \in 1..Len(calls[c].trace) : ~calls[c].trace[i].ok

HasPrefix(m) == Len(m) >= Len(Prefix) /\ SubSeq(m, 1, Len(Prefix)) = Prefix

\* The bytes a body stands for: none for an absent body.
BodyBytes(body) == IF body.some THEN body.val ELSE <<>>

\* A request the native builder and the URL parser both accept.
WellFormed(q) == q.url \in {UrlA, UrlB}

Representable(response) ==
    \A i \in 1..Len(response.headers) : response.headers[i][2] # OpaqueValue

(* ------------------------------- claims -------------------------------- *)

\* C1: a failure at any phase after the promise is returned (body take, body
\* drain, request build, URL parse, dispatcher, response conversion) ends with
\* that call's promise rejected with an error; no call panics, fetch throws
\* nothing into script, and no finished call leaves its promise pending.
C1_FailureRejectsPromise ==
    /\ \A c \in Calls :
          /\ calls[c].pc # "panicked"
          /\ (\E n \in {"detach", "drain", "build", "parse", "dispatch", "convert"} :
                  Ran(c, n, FALSE))
                => /\ calls[c].pc = "done"
                   /\ IsRejected(c)
                   /\ calls[c].promise.val.error.message # ""
          /\ (calls[c].pc = "done" /\ Failed(c)) => IsRejected(c)
          /\ calls[c].pc = "done" => calls[c].promise.val.state # "pending"
          /\ (calls[c].pc = "done" /\ Served(c)
                /\ (~OwnAnswer(c).val.ok \/ ~Representable(OwnAnswer(c).val.val)))
                => IsRejected(c)
    /\ thrown.some => thrown.val.in \in {"Env", "EnvAssets"}

\* C1 witness: one call rejected by a failed response conversion, another by a
\* failed body take.
C1_Witness ==
    \E c, d \in Calls :
        /\ Ran(c, "convert", FALSE) /\ IsRejected(c)
        /\ Ran(d, "detach", FALSE) /\ IsRejected(d)

\* C2 as claimed: fetch always returns a promise: every call of fetch made
\* so far returned one, the promise of a call of its own, and the promise of a
\* call whose future has not been polled is pending with no step run.
C2_AlwaysReturnsPromise ==
    /\ Len(returns) = Len(calls)
    /\ \A i \in 1..Len(returns) : returns[i] = Some(i)
    /\ \A c \in Calls :
          calls[c].pc = "queued" =>
              calls[c].promise = Some(Pending) /\ calls[c].trace = <<>>

\* C2 amended: fetch returns at once and throws nothing; when the event loop
\* has a future queue it returns a promise, pending, before any step of the
\* native computation has run (no phase in the trace, the request object and
\* the dispatcher untouched), also for a call that will end in a rejection;
\* when the event loop has none it returns nothing, and then no promise is
\* made and no step of the computation runs.
C2_PromiseReturnedBeforeWork ==
    [][/\ callsLeft' # callsLeft =>
            /\ Len(returns') = Len(returns) + 1
            /\ requests' = requests
            /\ dispatches' = dispatches
            /\ thrown' = thrown
            /\ futures =>
                  /\ returns'[Len(returns')] = Some(Len(calls'))
                  /\ Len(calls') = Len(calls) + 1
            /\ ~futures =>
                  /\ returns'[Len(returns')] = None
                  /\ calls' = calls
       /\ returns' # returns => callsLeft' = callsLeft - 1
       /\ ~futures' => calls' = <<>> /\ dispatches' = <<>> /\ requests' = created'
       /\ Len(calls') > Len(calls) =>
            /\ calls'[Len(calls')].pc = "queued"
            /\ calls'[Len(calls')].promise = Some(Pending)
            /\ calls'[Len(calls')].trace = <<>>
            /\ requests' = requests
            /\ dispatches' = dispatches
            /\ thrown' = thrown]_vars

\* C2 witness: a promise returned pending for a request whose body is already
\* taken, so that the call can only end rejected.
C2_Witness ==
    \E c \in Calls :
        /\ calls[c].pc = "queued"
        /\ calls[c].promise = Some(Pending)
        /\ returns[c] = Some(c)
        /\ requests[calls[c].request_heap].body_used

\* C3: the native request handed to the dispatcher has the script request's
\* method, a URI that prints as its URL, its headers in iteration order and
\* its body bytes; a well-formed request whose body is absent or empty and
\* whose take and drain succeeded is dispatched with the empty body.
C3_NativeRequestMatches ==
    /\ \A d \in 1..Len(dispatches) :
          LET q == RequestOf(dispatches[d].call)
              n == dispatches[d].request
          IN  /\ WellFormed(q)
              /\ n.parts.method = q.method
              /\ UriToString(n.parts.uri) = q.url
              /\ n.parts.headers = q.headers
              /\ n.body = BodyBytes(q.body)
    /\ \A c \in Calls :
          (/\ WellFormed(RequestOf(c))
           /\ BodyBytes(RequestOf(c).body) = <<>>
           /\ Ran(c, "detach", TRUE) /\ Ran(c, "drain", TRUE))
          => \E d \in DispatchesOf(c) : dispatches[d].request.body = <<>>

\* C3 witness: a dispatched request with two values of one header name and a
\* body of two bytes.
C3_Witness ==
    \E d \in 1..Len(dispatches) :
        LET n == dispatches[d].request
        IN  /\ Len(n.parts.headers) = 2
            /\ n.parts.headers[1][1] = n.parts.headers[2][1]
            /\ n.parts.headers[1][2] # n.parts.headers[2][2]
            /\ Len(n.body) = 2

\* C4: when the dispatcher fails with message r the promise is rejected with
\* the message "Failed to fetch static asset due to " followed by r, and the
\* response bridge is not run for that call.
C4_DispatchErrorMessage ==
    \A c \in Calls :
        (calls[c].pc = "done" /\ Served(c) /\ ~OwnAnswer(c).val.ok)
        => /\ calls[c].promise =
                Some(Rejected([kind |-> "Normal",
                               message |-> Prefix \o OwnAnswer(c).val.err]))
           /\ OwnAnswer(c).val.err = "disk error"
                => calls[c].promise.val.error.message
                     = "Failed to fetch static asset due to disk error"
           /\ ~Ran(c, "convert", TRUE) /\ ~Ran(c, "convert", FALSE)

\* C4 witness: a finished call whose dispatcher failed with "disk error".
C4_Witness ==
    \E c \in Calls :
        calls[c].pc = "done" /\ Served(c) /\ OwnAnswer(c).val = Err("disk error")

\* What call c must settle with, given the dispatcher's answer to it.
ExpectedPromise(c, answer) ==
    IF ~answer.ok
    THEN Rejected([kind |-> "Normal", message |-> Prefix \o answer.err])
    ELSE IF ~Representable(answer.val)
    THEN Rejected([kind |-> "Normal", message |-> "header value is not representable"])
    ELSE Resolved([class |-> "Response",
                   private |-> [status |-> answer.val.status,
                                headers |-> answer.val.headers,
                                body |-> answer.val.body,
                                url |-> UrlParse(RequestOf(c).url).val]])

\* C5: concurrent calls do not mix: each call invokes the dispatcher at most
\* once, with a native request built from its own script request, and a call
\* that was dispatched settles with the outcome of its own invocation.
C5_CallsIndependent ==
    \A c \in Calls :
        /\ Cardinality(DispatchesOf(c)) <= 1
        /\ \A d \in DispatchesOf(c) :
              /\ dispatches[d].request.parts.method = RequestOf(c).method
              /\ UriToString(dispatches[d].request.parts.uri) = RequestOf(c).url
              /\ dispatches[d].request.parts.headers = RequestOf(c).headers
              /\ dispatches[d].request.body = BodyBytes(RequestOf(c).body)
        /\ (calls[c].pc = "done" /\ DispatchesOf(c) # {})
              => /\ OwnAnswer(c).some
                 /\ calls[c].promise = Some(ExpectedPromise(c, OwnAnswer(c).val))
        /\ (calls[c].pc = "dispatch" /\ ~OwnAnswer(c).some)
              => calls[c].promise = Some(Pending)

\* C5 witness: two finished calls on distinct request objects with distinct
\* contents, the first answered with an error after the second was answered
\* with a response.
C5_Witness ==
    \E c, d \in Calls :
        /\ calls[c].request_heap # calls[d].request_heap
        /\ RequestOf(c) # RequestOf(d)
        /\ c < d
        /\ calls[c].pc = "done" /\ calls[d].pc = "done"
        /\ IsRejected(c) /\ Served(c) /\ ~OwnAnswer(c).val.ok
        /\ IsResolved(d)

\* C6: the body of a request object is taken at most once over all fetch
\* calls: at most one call on it gets the body and reaches the dispatcher; a
\* call that finds the body taken fails at the body take, its promise is
\* rejected, and it never invokes the dispatcher.
C6_BodyTakenOnce ==
    /\ \A r \in DOMAIN requests :
          /\ Cardinality({c \in Calls : calls[c].request_heap = r
                                          /\ Ran(c, "detach", TRUE)}) <= 1
          /\ Cardinality({d \in 1..Len(dispatches) :
                             calls[dispatches[d].call].request_heap = r}) <= 1
    /\ \A c \in Calls :
          Ran(c, "detach", FALSE)
          => /\ calls[c].pc = "done"
             /\ IsRejected(c)
             /\ DispatchesOf(c) = {}
             /\ ~Ran(c, "drain", TRUE) /\ ~Ran(c, "drain", FALSE)

\* C6 witness: a second fetch on a request whose body the first fetch took and
\* dispatched; the second is rejected at the body take.
C6_Witness ==
    \E c, d \in Calls :
        /\ c # d
        /\ calls[c].request_heap = calls[d].request_heap
        /\ DispatchesOf(c) # {}
        /\ Ran(d, "detach", FALSE) /\ IsRejected(d)

\* C7: when the dispatcher answers call c with status S, headers K and body D
\* and the conversion succeeds, the promise is resolved with a Response object
\* of status S, headers K, body D, tagged with the URL parsed from the
\* dispatched request's URI (200, content-type: text/plain, "hello" for
\* https://example.com/a.txt).
C7_ResolvedWithResponse ==
    \A c \in Calls :
        (calls[c].pc = "done" /\ Served(c) /\ OwnAnswer(c).val.ok
            /\ Representable(OwnAnswer(c).val.val))
        => LET native == OwnAnswer(c).val.val
               sent == dispatches[CHOOSE d \in DispatchesOf(c) : TRUE].request
               value == calls[c].promise.val.value
           IN  /\ IsResolved(c)
               /\ value.class = "Response"
               /\ value.private.status = native.status
               /\ value.private.headers = native.headers
               /\ value.private.body = native.body
               /\ value.private.url = UrlParse(UriToString(sent.parts.uri)).val
               /\ (native.status = 200 /\ native.body = Hello
                     /\ RequestOf(c).url = "https://example.com/a.txt")
                   => value.private =
                        [status |-> 200,
                         headers |-> <<<<"content-type", "text/plain">>>>,
                         body |-> <<104, 101, 108, 108, 111>>,
                         url |-> [href |-> "https://example.com/a.txt",
                                  origin |-> "https://example.com"]]

\* C7 witness: a call for https://example.com/a.txt resolved after the
\* dispatcher answered 200 with body "hello".
C7_Witness ==
    \E c \in Calls :
        /\ IsResolved(c)
        /\ RequestOf(c).url = "https://example.com/a.txt"
        /\ OwnAnswer(c).val.val.status = 200
        /\ OwnAnswer(c).val.val.body = Hello

\* C8: constructing Env or EnvAssets from script always throws a Type error
\* with the message "Cannot construct this type" and creates no object: every
\* capability object was made by the host in Env::new_obj, one EnvAssets for
\* each Env.
C8_NotConstructible ==
    /\ \A o \in DOMAIN EnvNewObj : o \in DOMAIN objects /\ objects[o] = EnvNewObj[o]
    /\ \A o \in DOMAIN objects :
          /\ objects[o].by = "host"
          /\ objects[o].class \in {"Env", "EnvAssets"}
    /\ Cardinality(DOMAIN objects) = 2 * Cardinality(Envs)
    /\ thrown.some =>
          /\ thrown.val.in \in {"Env", "EnvAssets"}
          /\ thrown.val.error = [kind |-> "Type", message |-> "Cannot construct this type"]

\* C8 witness: script tried to construct EnvAssets while a fetch was in flight.
C8_Witness ==
    /\ thrown.some /\ thrown.val.in = "EnvAssets"
    /\ \E c \in Calls : calls[c].pc = "dispatch"

\* C9 as claimed: every rejection message has the form "Failed to fetch static
\* asset due to {reason}".
C9_EveryRejectionPrefixed ==
    \A c \in Calls :
        IsRejected(c) => HasPrefix(calls[c].promise.val.error.message)

\* C9 amended: only a dispatcher failure is reported as "Failed to fetch static
\* asset due to {reason}"; a failed body take, body drain, request build, URL
\* parse or response conversion rejects the promise with that failure's own
\* message, without the prefix.
C9_PrefixOnlyForDispatcher ==
    \A c \in Calls :
        IsRejected(c)
        => LET m == calls[c].promise.val.error.message
           IN  IF Served(c) /\ ~OwnAnswer(c).val.ok
               THEN m = Prefix \o OwnAnswer(c).val.err
               ELSE /\ ~HasPrefix(m)
                    /\ Ran(c, "detach", FALSE) => m = "Request body has already been used"
                    /\ Ran(c, "drain", FALSE) => m = "failed to read request body: io error"
                    /\ Ran(c, "build", FALSE) => m = "uri too long"
                    /\ Ran(c, "parse", FALSE) => m = "relative URL without a base"
                    /\ Ran(c, "convert", FALSE) => m = "header value is not representable"
                    /\ \E n \in {"detach", "drain", "build", "parse", "convert"} :
                          Ran(c, n, FALSE)

\* C9 witness: one call rejected by the dispatcher's failure, another by a URL
\* that is not absolute.
C9_Witness ==
    \E c, d \in Calls :
        /\ IsRejected(c) /\ Served(c) /\ ~OwnAnswer(c).val.ok
        /\ IsRejected(d) /\ Ran(d, "parse", FALSE)

\* The phases of one fetch call, in the order of the code.
Order == <<"extract", "detach", "drain", "build", "parse", "dispatch", "convert", "settle">>

Index(name) == CHOOSE i \in 1..Len(Order) : Order[i] = name

\* The position of the future agrees with the phases it has run.
PcAgrees(c) ==
    LET t == calls[c].trace
    IN  /\ calls[c].pc = "queued" <=> t = <<>>
        /\ calls[c].pc = "drain" <=> (t # <<>> /\ t[Len(t)] = Phase("detach", TRUE))
        /\ calls[c].pc = "dispatch" <=> (t # <<>> /\ t[Len(t)] = Phase("parse", TRUE))
        /\ calls[c].pc = "done" <=> (t # <<>> /\ t[Len(t)].phase = "settle")

\* C10 as claimed: the phases run in order, none twice, none before the one
\* before it has succeeded, and a failed phase is followed by settlement only.
C10_EveryFailureSettlesAtOnce ==
    \A c \in Calls :
        LET t == calls[c].trace
        IN  /\ PcAgrees(c)
            /\ t # <<>> => t[1].phase = "extract"
            /\ \A i \in 1..(Len(t) - 1) :
                  /\ Index(t[i].phase) < Index(t[i + 1].phase)
                  /\ t[i].ok => Index(t[i + 1].phase) = Index(t[i].phase) + 1
                  /\ ~t[i].ok => t[i + 1].phase = "settle"

\* C10 amended: the phases run in the order extraction, body detach, body
\* drain, request build, URL parse, dispatch, conversion, settlement, none
\* twice and none skipped; a failed detach, drain, build, parse, dispatch or
\* conversion is followed by settlement only. A URL the native builder rejects
\* fails the extraction without ending it: detach and drain still run, and the
\* failure is reported by the request build after the drain.
C10_PhaseOrder ==
    \A c \in Calls :
        LET t == calls[c].trace
        IN  /\ PcAgrees(c)
            /\ t # <<>> => t[1].phase = "extract"
            /\ \A i \in 1..(Len(t) - 1) :
                  /\ Index(t[i].phase) < Index(t[i + 1].phase)
                  /\ (t[i].ok \/ t[i].phase = "extract")
                        => Index(t[i + 1].phase) = Index(t[i].phase) + 1
                  /\ (~t[i].ok /\ t[i].phase # "extract") => t[i + 1].phase = "settle"
            /\ Ran(c, "extract", FALSE) => ~Ran(c, "build", TRUE)
            /\ Ran(c, "extract", TRUE) => ~Ran(c, "build", FALSE)

\* C10 witness: a call whose URL the builder rejected: its body was taken and
\* drained before the build reported the failure.
C10_Witness ==
    \E c \in Calls :
        /\ Ran(c, "extract", FALSE)
        /\ Ran(c, "detach", TRUE) /\ Ran(c, "drain", TRUE)
        /\ Ran(c, "build", FALSE)
        /\ IsRejected(c)

\* C11: every step of a fetch task that touches script-engine state (the
\* request object, the body being drained, the response object, the promise)
\* runs with the script context: held by the task, or passed by it to the
\* drain; while the task awaits the dispatcher it does not have the context
\* and has touched nothing since giving it up, and it has the context back
\* before it touches the response or the promise.
C11_ContextDiscipline ==
    \A c \in Calls :
        LET call == calls[c]
            t == call.touched
        IN  /\ \A i \in 1..Len(t) :
                  /\ t[i].cx \in {"held", "lent"}
                  /\ t[i].cx = "lent" <=> t[i].object = "body"
            /\ call.pc = "queued" => call.cx = "held" /\ t = <<>>
            /\ call.pc = "drain" => call.cx = "lent"
            /\ call.pc = "dispatch" =>
                  /\ call.cx = "away"
                  /\ t[Len(t)].object = "body"
            /\ call.pc = "done" => call.cx = "held"
            /\ \A i, j \in 1..Len(t) :
                  (t[i].object = "body" /\ t[j].object \in {"response", "promise"})
                      => i < j

\* C11 witness: one call went through all its steps and made the response
\* object with the context back, while another is awaiting the dispatcher.
C11_Witness ==
    \E c, d \in Calls :
        /\ calls[c].pc = "done" /\ Ran(c, "convert", TRUE)
        /\ Len(calls[c].touched) = 4
        /\ calls[c].touched[3] = Touch("response", "new", "held")
        /\ calls[d].pc = "dispatch" /\ calls[d].cx = "away"

\* C12: an Env is never changed after new_obj made it: no step (reads, fetch
\* calls, constructor attempts, further calls of new_obj) changes or removes a
\* capability object, so the reference an Env holds stays the one EnvAssets
\* new_obj made for it, which no other Env holds; every read of ASSETS on an
\* Env returns the object that Env holds.
C12_AssetsReferenceFixed ==
    [][/\ \A o \in DOMAIN objects :
              o \in DOMAIN objects' /\ objects'[o] = objects[o]
       /\ \A e \in Envs' :
              /\ objects'[e].assets \in DOMAIN objects'
              /\ objects'[objects'[e].assets] = [class |-> "EnvAssets", by |-> "host"]
              /\ \A f \in Envs' : objects'[f].assets = objects'[e].assets => f = e
       /\ got'.some =>
              /\ asked'.some /\ asked'.val \in Envs'
              /\ got'.val = objects'[asked'.val].assets
      ]_vars

\* C12 witness: ASSETS of the first Env was read after new_obj had made a
\* second Env, one fetch had resolved, another was rejected and a constructor
\* call had thrown: the read returned the first EnvAssets.
C12_Witness ==
    /\ Cardinality(Envs) = 2
    /\ asked = Some("env") /\ got = Some("assets")
    /\ thrown.some
    /\ \E c, d \in Calls : IsResolved(c) /\ IsRejected(d)

\* The native request of call c gets built, and its URI is not an absolute URL.
Unparseable(c) ==
    /\ UriFromStr(RequestOf(c).url).ok
    /\ ~UrlParse(UriToString(UriFromStr(RequestOf(c).url).val)).ok

\* C13: when the URI of the built native request does not parse as an
\* absolute URL, the call never reaches the dispatcher: once the native
\* request has been built the call is over, the URL parse is its failed step,
\* no dispatcher invocation belongs to it, and its promise is rejected with
\* the parser's error.
C13_UnparseableUrlNotDispatched ==
    \A c \in Calls :
        /\ Unparseable(c) =>
              /\ DispatchesOf(c) = {}
              /\ calls[c].pc # "dispatch"
              /\ ~IsResolved(c)
              /\ Ran(c, "build", TRUE) =>
                    /\ calls[c].pc = "done"
                    /\ Ran(c, "parse", FALSE)
                    /\ IsRejected(c)
                    /\ calls[c].promise.val.error.message =
                          UrlParse(UriToString(UriFromStr(RequestOf(c).url).val)).err
        /\ Ran(c, "parse", FALSE) =>
              /\ Unparseable(c)
              /\ Ran(c, "drain", TRUE) /\ Ran(c, "build", TRUE)
              /\ ~Ran(c, "dispatch", TRUE) /\ ~Ran(c, "dispatch", FALSE)

\* C13 witness: a call with a path-only URL was rejected at the URL parse with
\* its request built, while the dispatcher served another call.
C13_Witness ==
    \E c, d \in Calls :
        /\ Unparseable(c) /\ Ran(c, "build", TRUE) /\ Ran(c, "parse", FALSE)
        /\ IsRejected(c) /\ DispatchesOf(c) = {}
        /\ Served(d)

\* The native builder cannot consume the URL of call c's request.
Unbuildable(c) == ~UriFromStr(RequestOf(c).url).ok

\* C14: a request whose method, URL or headers the native builder cannot
\* consume fails in the first phase: the call is over before the body drain
\* starts, its promise rejected, and no body is drained for it.
C14_FailsBeforeDrain ==
    \A c \in Calls :
        (Unbuildable(c) /\ calls[c].pc # "queued") =>
            /\ calls[c].pc = "done"
            /\ IsRejected(c)
            /\ ~Ran(c, "drain", TRUE) /\ ~Ran(c, "drain", FALSE)

\* C14 amended: a request whose URL the native builder cannot consume never
\* gets a native request built, never reaches the dispatcher and is never
\* resolved; the builder keeps the error, the body is still taken and drained,
\* and the call is rejected with the builder's error at the request build
\* after the drain, unless the body take or the drain failed first.
C14_FailsAtBuildAfterDrain ==
    \A c \in Calls :
        Unbuildable(c) =>
            /\ ~Ran(c, "build", TRUE)
            /\ DispatchesOf(c) = {}
            /\ ~IsResolved(c)
            /\ calls[c].pc \in {"queued", "drain", "done"}
            /\ (calls[c].pc = "drain" /\ RequestOf(c).body.some) =>
                  calls[c].request_body = Some(RequestOf(c).body)
            /\ calls[c].pc = "done" =>
                  /\ IsRejected(c)
                  /\ \/ Ran(c, "detach", FALSE)
                     \/ Ran(c, "detach", TRUE) /\ Ran(c, "drain", FALSE)
                     \/ /\ Ran(c, "detach", TRUE) /\ Ran(c, "drain", TRUE)
                        /\ Ran(c, "build", FALSE)
                        /\ calls[c].promise.val.error.message =
                              UriFromStr(RequestOf(c).url).err

\* C14 witness: a request with an over-long URL and a body of two bytes: the
\* body was drained, then the build rejected the call with the URL's error.
C14_Witness ==
    \E c \in Calls :
        /\ Unbuildable(c)
        /\ Len(BodyBytes(RequestOf(c).body)) = 2
        /\ Ran(c, "drain", TRUE) /\ Ran(c, "build", FALSE)
        /\ calls[c].pc = "done"
        /\ calls[c].promise.val.error.message = "uri too long"

\* C15: a fetch task uses the script request only in its first step, before
\* the first await, and only through the traced handle: every change of a
\* request object is made by a task leaving the queue for that request, a
\* task resumed after the drain or after the dispatch leaves every request
\* object as it is and adds no use of the request to its record, and every
\* recorded use of the request is the first entry, made through the handle.
C15_RequestOnlyBeforeFirstAwait ==
    [][/\ \A r \in DOMAIN requests :
              requests'[r] # requests[r] =>
                  \E c \in Calls :
                      /\ calls[c].pc = "queued" /\ calls'[c].pc # "queued"
                      /\ calls[c].request_heap = r
       /\ \A c \in Calls :
              /\ (calls[c].pc \in {"drain", "dispatch"} /\ calls'[c] # calls[c]) =>
                    /\ requests' = requests
                    /\ \A i \in (Len(calls[c].touched) + 1)..Len(calls'[c].touched) :
                          calls'[c].touched[i].object # "request"
              /\ \A i \in 1..Len(calls'[c].touched) :
                    calls'[c].touched[i].object = "request" =>
                        /\ i = 1
                        /\ calls'[c].touched[i].via = "handle"
      ]_vars

\* C15 witness: a call resumed twice (after the drain and after the dispatcher
\* failed) whose only use of the request is the first one, with the request's
\* body still taken.
C15_Witness ==
    \E c \in Calls :
        /\ calls[c].pc = "done" /\ Ran(c, "dispatch", FALSE)
        /\ Len(calls[c].touched) = 3
        /\ calls[c].touched[1] = Touch("request", "handle", "held")
        /\ RequestOf(c).body.some
        /\ requests[calls[c].request_heap].body = None
        /\ requests[calls[c].request_heap].body_used

\* The number of settlements in the record of call c.
Settlements(c) ==
    Cardinality({i \in 1..Len(calls[c].trace) : calls[c].trace[i].phase = "settle"})

\* C16: the promise of a call is pending while its task is suspended in the
\* body drain or awaiting the dispatcher; a step that leaves a suspended task
\* suspended where it is changes nothing of that call, and the dispatcher's
\* work changes no request, no object, no call and raises nothing; a promise
\* is settled at most once, it is resolved with a value or rejected with an
\* error and never both, and a settled promise never changes again.
C16_PendingWhileSuspendedSettledOnce ==
    [][/\ \A c \in 1..Len(calls') :
              /\ calls'[c].pc \in {"drain", "dispatch"} =>
                    calls'[c].promise = Some(Pending)
              /\ calls'[c].promise.val.state \in {"pending", "resolved", "rejected"}
              /\ calls'[c].promise.val.state = "resolved" <=>
                    DOMAIN calls'[c].promise.val = {"state", "value"}
              /\ calls'[c].promise.val.state = "rejected" <=>
                    DOMAIN calls'[c].promise.val = {"state", "error"}
              /\ Cardinality({i \in 1..Len(calls'[c].trace) :
                                  calls'[c].trace[i].phase = "settle"})
                    = IF calls'[c].promise = Some(Pending) THEN 0 ELSE 1
       /\ \A c \in Calls :
              /\ calls[c].promise # Some(Pending) => calls'[c].promise = calls[c].promise
              /\ (calls[c].pc \in {"drain", "dispatch"} /\ calls'[c].pc = calls[c].pc)
                    => calls'[c] = calls[c]
       /\ (\E d \in 1..Len(dispatches) : dispatches'[d] # dispatches[d]) =>
              /\ calls' = calls /\ requests' = requests
              /\ objects' = objects /\ thrown' = thrown /\ got' = got /\ asked' = asked
      ]_vars

\* C16 witness: one call resolved and one rejected, each settled once, while
\* the dispatcher has answered both.
C16_Witness ==
    \E c, d \in Calls :
        /\ IsResolved(c) /\ Settlements(c) = 1
        /\ IsRejected(d) /\ Settlements(d) = 1 /\ Ran(d, "dispatch", FALSE)
        /\ Served(c) /\ Served(d)

\* C17: the dispatcher is invoked at most once for a call, and only for a
\* call whose body drain ended well and whose native request was built and
\* its URL parsed; no invocation belongs to a call that is queued or draining
\* its body; the request handed over holds all the bytes of the body, and
\* from the hand-over on the task holds no native request, no builder and no
\* body any more.
C17_DispatchedOnceAfterBuild ==
    /\ \A c \in Calls :
          /\ Cardinality(DispatchesOf(c)) <= 1
          /\ calls[c].pc \in {"queued", "drain"} => DispatchesOf(c) = {}
          /\ calls[c].pc = "dispatch" => Cardinality(DispatchesOf(c)) = 1
          /\ DispatchesOf(c) # {} =>
                /\ Ran(c, "detach", TRUE) /\ Ran(c, "drain", TRUE)
                /\ Ran(c, "build", TRUE) /\ Ran(c, "parse", TRUE)
                /\ calls[c].pc \in {"dispatch", "done"}
                /\ calls[c].http_req = None
                /\ calls[c].request_body = None
    /\ \A d \in 1..Len(dispatches) :
          /\ dispatches[d].call \in Calls
          /\ DOMAIN dispatches[d].request = {"parts", "body"}
          /\ Len(dispatches[d].request.body)
                = Len(BodyBytes(RequestOf(dispatches[d].call).body))

\* C17 witness: a call dispatched once with a body of two bytes and finished,
\* and a call whose drain failed and which has no invocation.
C17_Witness ==
    \E c, e \in Calls :
        /\ Cardinality(DispatchesOf(c)) = 1
        /\ calls[c].pc = "done"
        /\ \E d \in DispatchesOf(c) : Len(dispatches[d].request.body) = 2
        /\ Ran(e, "drain", FALSE) /\ DispatchesOf(e) = {}

\* C18: when the event loop keeps polling every future that can run and the
\* body drain and the dispatcher each come back with a result or an error,
\* every promise fetch has returned is settled in the end, resolved or
\* rejected, whatever the other calls in flight do.
C18_EveryPromiseSettled ==
    \A c \in 1..MaxCalls :
        (c <= Len(calls)) ~>
            (c <= Len(calls) /\ calls[c].pc = "done"
                /\ calls[c].promise.val.state \in {"resolved", "rejected"})

\* C18 witness: the promises of two calls are settled: one resolved after the
\* dispatcher answered, one rejected after its body was drained.
C18_Witness ==
    \E c, d \in Calls :
        /\ IsResolved(c) /\ Ran(c, "dispatch", TRUE)
        /\ IsRejected(d) /\ Ran(d, "drain", TRUE) /\ DispatchesOf(d) = {}
        /\ calls[c].pc = "done" /\ calls[d].pc = "done"

\* The calls made with request object r that have run their first step.
StartedOn(r) == {c \in Calls : calls[c].request_heap = r /\ calls[c].pc # "queued"}

\* The calls that took the body of request object r.
TookBodyOf(r) == {c \in StartedOn(r) : Ran(c, "detach", TRUE)}

\* C19: of the calls made with one request object, in any interleaving, one
\* takes the body (the first to run) and only that one can reach the
\* dispatcher; every other fails at the body take, is rejected with the body's
\* error and has no dispatcher invocation, so the dispatcher is invoked at
\* most once for a request object; the body stays taken when the call that
\* took it fails later: the request is not restored.
C19_SameRequestOneTaker ==
    \A r \in DOMAIN requests :
        /\ Cardinality(TookBodyOf(r)) = IF StartedOn(r) = {} THEN 0 ELSE 1
        /\ \A c \in StartedOn(r) \ TookBodyOf(r) :
              /\ Ran(c, "detach", FALSE)
              /\ calls[c].pc = "done" /\ IsRejected(c)
              /\ calls[c].promise.val.error.message = TakeBody(requests[r]).err
              /\ DispatchesOf(c) = {}
        /\ Cardinality({d \in 1..Len(dispatches) :
                            calls[dispatches[d].call].request_heap = r}) <= 1
        /\ \A d \in 1..Len(dispatches) :
              calls[dispatches[d].call].request_heap = r =>
                  dispatches[d].call \in TookBodyOf(r)
        /\ StartedOn(r) # {} =>
              /\ requests[r].body_used
              /\ requests[r].body = None
        /\ StartedOn(r) = {} => requests[r] = created[r]

\* C19 witness: two calls with one request object that had a body; the call
\* that took the body failed at the dispatcher, the other was rejected at the
\* body take, and the body is still taken.
C19_Witness ==
    \E c, d \in Calls :
        /\ c # d /\ calls[c].request_heap = calls[d].request_heap
        /\ RequestOf(c).body.some
        /\ Ran(c, "detach", TRUE) /\ Ran(c, "dispatch", FALSE) /\ calls[c].pc = "done"
        /\ Ran(d, "detach", FALSE) /\ IsRejected(d)
        /\ requests[calls[c].request_heap].body_used
        /\ Cardinality({i \in 1..Len(dispatches) :
                            calls[dispatches[i].call].request_heap
                                = calls[c].request_heap}) = 1

====
